---------------------------- MODULE Spec2Model ----------------------------
(***************************************************************************)
(* The code-agent job of src/unnamed/part_001: the router of the agent     *)
(* network, the termination detector (lifecycle.onResponse), the terminal, *)
(* writeFile and readFiles tools and the save-result / return steps.       *)
(*                                                                         *)
(* Text is modelled as a sequence of one-character strings, so that        *)
(* String.includes, template literals and the || defaults are computed     *)
(* and not assumed.                                                        *)
(***************************************************************************)
EXTENDS Integers, Sequences, FiniteSets, TLC

---------------------------------------------------------------------------
(* Bounds of the model *)

\* tool calls the agent may make in one run
MaxToolCalls == 2

\* the last turn in which the agent asks for a tool
MaxToolTurn == 2

---------------------------------------------------------------------------
(* String literals of the source *)

TagMarker == <<"<","t","a","s","k","_","s","u","m","m","a","r","y",">">>
TaskCompletedText == <<"T","a","s","k"," ","c","o","m","p","l","e","t","e","d">>
DoneMarker == <<"D","o","n","e"," ","w","i","t","h"," ","t","h","e"," ","t","a","s","k">>
CommandOk == <<"C","o","m","m","a","n","d"," ","e","x","e","c","u","t","e","d"," ","s","u","c","c","e","s","s","f","u","l","l","y">>
ExitCodePrefix == <<"E","x","i","t"," ","c","o","d","e"," ">>
ColonSpace == <<":"," ">>
FailedAfter == <<"F","A","I","L","E","D"," ","a","f","t","e","r"," ">>
AttemptsColon == <<" ","a","t","t","e","m","p","t","s",":"," ">>
FilePrefix == <<"F","i","l","e"," ">>
WrittenSuffix == <<" ","w","r","i","t","t","e","n"," ","s","u","c","c","e","s","s","f","u","l","l","y">>
ErrorWritingFile == <<"E","r","r","o","r"," ","w","r","i","t","i","n","g"," ","f","i","l","e"," ">>
MsgLower == <<"t","a","s","k"," ","c","o","m","p","l","e","t","e","d">>
MsgTag == <<"<","t","a","s","k","_","s","u","m","m","a","r","y",">","h","i">>
MsgDone == <<"A","l","l"," ","D","o","n","e"," ","w","i","t","h"," ","t","h","e"," ","t","a","s","k",".">>
ErrText == <<"E","r","r","o","r",":"," ","x">>
TypeErrText == <<"T","y","p","e","E","r","r","o","r",":"," ","y">>

---------------------------------------------------------------------------
(* Inputs the environment may supply *)

\* texts the model may produce in a turn ("" included)
Messages == { <<>>, MsgLower, MsgTag, TaskCompletedText, MsgDone }

PathA == <<"a">>
PathB == <<"b">>
Paths == { PathA, PathB }
Contents == { <<"x">>, <<"y">> }

\* one message of an agent result: assistant text, or a tool call
OutputMessages ==
    [type : {"text"}, content : Messages] \cup {[type |-> "tool_call", content |-> <<>>]}

ToolCallMessage == [type |-> "tool_call", content |-> <<>>]

TextMessage(t) == [type |-> "text", content |-> t]

\* the output list of one inference
AgentOutputs ==
    {<<>>} \cup {<<m>> : m \in OutputMessages}
           \cup {<<TextMessage(t), ToolCallMessage>> : t \in Messages}
           \cup {<<TextMessage(MsgTag), TextMessage(MsgLower)>>,
                 <<TextMessage(MsgLower), TextMessage(MsgDone)>>}

---------------------------------------------------------------------------
(* JavaScript values: an object is a function on the names of its set      *)
(* properties, an absent property reads as undefined (falsy)               *)

Has(d, f) == f \in DOMAIN d

Put(d, f, v) == [x \in (DOMAIN d) \cup {f} |-> IF x = f THEN v ELSE d[x]]

\* network.state.data.completed as a condition
CompletedOf(h, d) == h /\ Has(d, "completed") /\ d["completed"] = TRUE

\* network.state.data.iterations || 0
IterationsOf(h, d) == IF h /\ Has(d, "iterations") THEN d["iterations"] ELSE 0

\* data?.files || {}
FilesOf(h, d) == IF h /\ Has(d, "files") THEN d["files"] ELSE <<>>

\* data?.summary, as a pair: is it truthy, and its text
SummarySet(h, d) == h /\ Has(d, "summary") /\ d["summary"] # <<>>

Concat3(a, b, c) == a \o b \o c

\* String.prototype.includes
Includes(text, part) ==
    \E i \in 0..(Len(text) - Len(part)) : SubSeq(text, i + 1, i + Len(part)) = part

---------------------------------------------------------------------------
VARIABLES
    pc,         \* where the job is: "router", "agent", "terminal", "delay",
                \* "stopped", "saved", "done", "failed"
    hasData,    \* is network.state.data set
    data,       \* network.state.data
    agentRuns,  \* times the network has run the agent
    responded,  \* has onResponse run in this turn
    inspected,  \* the text onResponse was handed, while it is the latest step
    toolCalls,  \* tool calls made in this turn
    call,       \* the tool call in progress or last returned
    attempt,    \* terminal: loop variable
    lastError,  \* terminal: lastError
    buffers,    \* terminal: buffers of the current attempt
    tries,      \* terminal: passes of the loop body begun in this call
    runs,       \* terminal: sandbox.commands.run invocations of this call
    failures,   \* terminal: attempts of this call that failed
    resolveFails,\* terminal: attempts of this call in which getSandbox threw
    lastOutcome,\* terminal: what the sandbox did in the latest attempt
    delays,     \* terminal: the setTimeout delays of this call
    earlierOutput,\* terminal: did an attempt before the latest capture output
    lastWrite,  \* content of the last sandbox write that returned, by path
    overwrote,  \* has a write replaced a different recorded content
    markerSeen, \* has any turn's inspected text held a completion marker
    firstMarker,\* the turn and the text of the first inspected text with a marker
    readLog,    \* readFiles: the request and the sandbox reads of the latest call
    handlers,   \* writeFile handlers that overlap (OverlapSpec only)
    saved,      \* the message row save-result created
    returned    \* the value the job returned

vars == << pc, hasData, data, agentRuns, responded, inspected, toolCalls, call, attempt,
           lastError, buffers, tries, runs, failures, resolveFails, lastOutcome, delays,
           earlierOutput, lastWrite, overwrote, markerSeen, firstMarker, readLog, handlers, saved,
           returned >>

termVars == << attempt, lastError, buffers, tries, runs, failures, resolveFails,
              lastOutcome, delays, earlierOutput >>

writeVars == << lastWrite, overwrote >>

\* the model of the agent asks for a tool while its budget lasts
MayCallTool == toolCalls < MaxToolCalls /\ agentRuns <= MaxToolTurn

NoCall == [tool |-> "none", status |-> "none", path |-> <<>>, content |-> <<>>,
           outcome |-> "none", result |-> <<>>]

NoText == [defined |-> FALSE, text |-> <<>>]

EmptyBuffers == [stdout |-> <<>>, stderr |-> <<>>]

NoMarker == [turn |-> 0, text |-> <<>>]

NoRead == [files |-> <<>>, resolved |-> FALSE, reads |-> <<>>, got |-> <<>>]

NoOutcome == [kind |-> "none", chunks |-> <<>>, exitCode |-> [defined |-> FALSE, code |-> 0]]

\* the locals of the terminal handler when no call is in progress
TermIdle ==
    /\ attempt' = 0
    /\ lastError' = <<>>
    /\ buffers' = EmptyBuffers
    /\ tries' = 0
    /\ runs' = 0
    /\ failures' = 0
    /\ resolveFails' = 0
    /\ lastOutcome' = NoOutcome
    /\ delays' = <<>>
    /\ earlierOutput' = FALSE

Init ==
    /\ pc = "router"
    /\ hasData \in BOOLEAN
    /\ data = <<>>
    /\ agentRuns = 0
    /\ responded = FALSE
    /\ inspected = NoText
    /\ toolCalls = 0
    /\ call = NoCall
    /\ attempt = 0
    /\ lastError = <<>>
    /\ buffers = EmptyBuffers
    /\ tries = 0
    /\ runs = 0
    /\ failures = 0
    /\ resolveFails = 0
    /\ lastOutcome = NoOutcome
    /\ delays = <<>>
    /\ earlierOutput = FALSE
    /\ lastWrite = <<>>
    /\ overwrote = FALSE
    /\ markerSeen = FALSE
    /\ firstMarker = NoMarker
    /\ readLog = NoRead
    /\ handlers = <<>>
    /\ saved = <<>>
    /\ returned = <<>>

---------------------------------------------------------------------------
(* The router of createNetwork *)

\* the iteration bound the router tests
IterationCap == 15

RouterInit(h, d) ==
    IF ~h THEN [completed |-> FALSE, files |-> <<>>, iterations |-> 0] ELSE d

RouterCount(d) == Put(d, "iterations", IterationsOf(TRUE, d) + 1)

\* the router without its iteration test
RouterReturnsAgentNoCap(d) == ~CompletedOf(TRUE, d)

\* the router without its completion test
RouterReturnsAgentNoStop(d) == IterationsOf(TRUE, d) < IterationCap

\* the router testing > in place of >=
RouterReturnsAgentOffByOne(d) ==
    IF CompletedOf(TRUE, d) THEN FALSE
    ELSE IF IterationsOf(TRUE, d) > IterationCap THEN FALSE
    ELSE TRUE

\* what the router returns for the counted state: the agent, or undefined
RouterReturnsAgent(d) ==
    IF CompletedOf(TRUE, d) THEN FALSE
    ELSE IF IterationsOf(TRUE, d) >= IterationCap THEN FALSE
    ELSE TRUE

Router ==
    /\ pc = "router"
    /\ LET d == RouterCount(RouterInit(hasData, data))
       IN /\ hasData' = TRUE
          /\ data' = d
          /\ IF RouterReturnsAgent(d)
             THEN pc' = "agent" /\ agentRuns' = agentRuns + 1
             ELSE pc' = "stopped" /\ agentRuns' = agentRuns
    /\ UNCHANGED << responded, inspected, toolCalls, call, termVars, writeVars,
                    markerSeen, firstMarker, saved, returned,
                    handlers, readLog >>

---------------------------------------------------------------------------
(* An agent turn.  While pc = "agent" the agent-kit network is inside      *)
(* agent.run: it calls lifecycle.onResponse once with the result of the    *)
(* inference, and calls the handler of each tool the model asked for.  The *)
(* source fixes no order between the hook and the handlers, so every order *)
(* is allowed here; the turn cannot end before the hook has run.           *)
(*                                                                         *)
(* lifecycle.onResponse: the termination detector                          *)

\* the content of the last text message of the result, if any
lastAssistantTextMessageContent(output) ==
    LET idx == {i \in 1..Len(output) : output[i].type = "text"}
    IN IF idx = {} THEN NoText
       ELSE [defined |-> TRUE,
             text |-> output[CHOOSE i \in idx : \A j \in idx : j <= i].content]

\* the detector with the tag as its only marker
HasCompletionMarkerTagOnly(text) == Includes(text, TagMarker)

\* a detector that also takes the phrase in lower case for a marker
HasCompletionMarkerLoose(text) ==
    \/ Includes(text, TagMarker)
    \/ Includes(text, TaskCompletedText)
    \/ Includes(text, DoneMarker)
    \/ Includes(text, MsgLower)

HasCompletionMarker(text) ==
    \/ Includes(text, TagMarker)
    \/ Includes(text, TaskCompletedText)
    \/ Includes(text, DoneMarker)

\* the detector resetting the state on every response
OnResponseInitAlways(h, d) == [completed |-> FALSE, files |-> <<>>]

OnResponseInit(h, d) == IF ~h THEN [completed |-> FALSE, files |-> <<>>] ELSE d

\* a detector that records only the marker it found
SummaryTextTagOnly(text) == TagMarker

\* the value assigned to summary: the whole inspected text
SummaryText(text) == text

OnResponseData(h, d, last) ==
    LET d0 == OnResponseInit(h, d)
    IN IF last.defined /\ last.text # <<>>
       THEN IF HasCompletionMarker(last.text)
            THEN Put(Put(d0, "summary", SummaryText(last.text)), "completed", TRUE)
            ELSE d0
       ELSE d0

\* a completion marker, stated from the marker list (for claims)
Markers == { TagMarker, TaskCompletedText, DoneMarker }

ContainsMarker(text) ==
    \E i \in 1..Len(text), j \in 1..Len(text) : SubSeq(text, i, j) \in Markers

OnResponse ==
    /\ pc = "agent"
    /\ ~responded
    /\ \E output \in AgentOutputs :
         LET last == lastAssistantTextMessageContent(output)
         IN /\ data' = OnResponseData(hasData, data, last)
            /\ hasData' = TRUE
            /\ inspected' = last
            /\ markerSeen' = (markerSeen \/ (last.defined /\ ContainsMarker(last.text)))
            /\ firstMarker' = IF ~markerSeen /\ last.defined /\ ContainsMarker(last.text)
                              THEN [turn |-> agentRuns, text |-> last.text]
                              ELSE firstMarker
    /\ responded' = TRUE
    /\ call' = NoCall
    /\ TermIdle
    /\ readLog' = NoRead
    /\ UNCHANGED << pc, agentRuns, toolCalls, writeVars, saved, returned,
                    handlers >>

---------------------------------------------------------------------------
(* The writeFile tool *)

\* how the two awaited sandbox calls of the handler may end
WriteOutcomes == { "written", "resolveThrows", "writeThrows" }

\* an update that keeps the content a path already has
PutFileKeepFirst(files, path, content) ==
    [p \in (DOMAIN files) \cup {path} |-> IF p \in DOMAIN files THEN files[p] ELSE content]

\* updatedFiles[path] = content
PutFile(files, path, content) ==
    [p \in (DOMAIN files) \cup {path} |-> IF p = path THEN content ELSE files[p]]

\* the try block: the sandbox write, then the update of network.state.data.files
WriteFileTry(h, d, path, content, outcome) ==
    IF outcome # "written"
    THEN [thrown |-> TRUE, error |-> ErrText, data |-> d, wrote |-> FALSE, value |-> <<>>]
    ELSE IF ~h
    THEN [thrown |-> TRUE, error |-> TypeErrText, data |-> d, wrote |-> TRUE, value |-> <<>>]
    ELSE [thrown |-> FALSE, error |-> <<>>,
          data |-> Put(d, "files", PutFile(FilesOf(h, d), path, content)),
          wrote |-> TRUE,
          value |-> Concat3(FilePrefix, path, WrittenSuffix)]

\* a catch block that lets the exception leave the handler
WriteFileCatchRethrow(path, error) == [status |-> "thrown", result |-> error]

\* the catch block
WriteFileCatch(path, error) ==
    [status |-> "returned", result |-> ErrorWritingFile \o path \o ColonSpace \o error]

WriteFile ==
    /\ pc = "agent"
    /\ MayCallTool
    /\ \E path \in Paths, content \in Contents, outcome \in WriteOutcomes :
         LET t == WriteFileTry(hasData, data, path, content, outcome)
             r == IF t.thrown THEN WriteFileCatch(path, t.error)
                  ELSE [status |-> "returned", result |-> t.value]
         IN /\ data' = t.data
            /\ lastWrite' = IF t.wrote
                            THEN [p \in (DOMAIN lastWrite) \cup {path} |->
                                     IF p = path THEN content ELSE lastWrite[p]]
                            ELSE lastWrite
            /\ overwrote' = (overwrote \/ (/\ t.wrote
                                           /\ path \in DOMAIN lastWrite
                                           /\ lastWrite[path] # content))
            /\ call' = [tool |-> "writeFile", status |-> r.status, path |-> path,
                        content |-> content, outcome |-> outcome, result |-> r.result]
            /\ pc' = IF r.status = "thrown" THEN "failed" ELSE "agent"
    /\ toolCalls' = toolCalls + 1
    /\ inspected' = NoText
    /\ TermIdle
    /\ readLog' = NoRead
    /\ UNCHANGED << hasData, agentRuns, responded, markerSeen, firstMarker, saved, returned,
                    handlers >>

---------------------------------------------------------------------------
(* The terminal tool *)

maxRetries == 3

\* the setTimeout delay before a retry
RetryDelay == 500

\* what one sandbox.commands.run may stream to onStdout / onStderr
ChunkSeqs ==
    { <<>>,
      << [stream |-> "stderr", data |-> <<"e">>] >>,
      << [stream |-> "stdout", data |-> <<"o">>], [stream |-> "stderr", data |-> <<"e">>] >>,
      << [stream |-> "stdout", data |-> <<"o">>], [stream |-> "stdout", data |-> <<"k">>] >> }

\* result.exitCode: absent, or a number
NoExitCode == [defined |-> FALSE, code |-> 0]

ExitCode(c) == [defined |-> TRUE, code |-> c]

\* one attempt as the sandbox decides it: getSandbox throws, or
\* commands.run streams its chunks and then throws or returns an exit code
AttemptOutcomes ==
    { [kind |-> "resolveThrows", chunks |-> <<>>, exitCode |-> NoExitCode],
      [kind |-> "runThrows", chunks |-> << [stream |-> "stdout", data |-> <<"o">>] >>,
       exitCode |-> NoExitCode],
      [kind |-> "exit", chunks |-> <<>>, exitCode |-> NoExitCode],
      [kind |-> "exit", chunks |-> <<>>, exitCode |-> ExitCode(127)] }
    \cup { [kind |-> "exit", chunks |-> c, exitCode |-> e]
             : c \in ChunkSeqs, e \in { ExitCode(0), ExitCode(1) } }

Digits == << "0", "1", "2", "3", "4", "5", "6", "7", "8", "9" >>

RECURSIVE NumToStr(_)
NumToStr(n) == IF n < 10 THEN << Digits[n + 1] >>
               ELSE NumToStr(n \div 10) \o << Digits[(n % 10) + 1] >>

\* a || b on strings
OrElse(a, b) == IF a # <<>> THEN a ELSE b

\* buffers that live across the attempts of a call
NewBuffersKeep(old) == old

\* const buffers = { stdout: "", stderr: "" }, at the top of each attempt
NewBuffers(old) == EmptyBuffers

\* the onStdout / onStderr callbacks over the streamed chunks
RECURSIVE Feed(_, _)
Feed(b, chunks) ==
    IF chunks = <<>> THEN b
    ELSE Feed(IF Head(chunks).stream = "stdout"
              THEN [b EXCEPT !.stdout = @ \o Head(chunks).data]
              ELSE [b EXCEPT !.stderr = @ \o Head(chunks).data],
              Tail(chunks))

\* result.exitCode || 0
ExitCodeOf(e) == IF e.defined THEN e.code ELSE 0

\* the success text with stderr preferred to stdout
SuccessTextStderrFirst(b) == OrElse(b.stderr, OrElse(b.stdout, CommandOk))

\* `${buffers.stdout || buffers.stderr || 'Command executed successfully'}`
SuccessText(b) == OrElse(b.stdout, OrElse(b.stderr, CommandOk))

\* a failure message that prefers standard output
ExitErrorStdoutFirst(code, b) ==
    ExitCodePrefix \o NumToStr(code) \o ColonSpace \o OrElse(b.stdout, b.stderr)

ExitError(code, b) ==
    ExitCodePrefix \o NumToStr(code) \o ColonSpace \o OrElse(b.stderr, b.stdout)

FailedText(err) == FailedAfter \o NumToStr(maxRetries) \o AttemptsColon \o err

\* a catch block that lets the exception leave the handler
TerminalCatchRethrow(error) == [caught |-> FALSE, lastError |-> error]

\* the catch block of an attempt: the error is recorded, not rethrown
TerminalCatch(error) == [caught |-> TRUE, lastError |-> error]

\* a failed attempt that ends the loop at once
AfterFailureNoRetry(att) == "next"

\* if (attempt < maxRetries) { delay; continue }, else on to attempt++
AfterFailure(att) == IF att < maxRetries THEN "delay" ELSE "next"

\* the body of the for loop for one attempt:
\*   next = "return"  the handler returns value
\*          "delay"   the attempt failed and a retry follows the delay
\*          "next"    the attempt failed and was the last: falls out of the try
\*          "throw"   an exception leaves the handler
AttemptBody(att, lastErr, old, o) ==
    LET b == IF o.kind = "resolveThrows" THEN NewBuffers(old)
             ELSE Feed(NewBuffers(old), o.chunks)
        code == ExitCodeOf(o.exitCode)
        c == TerminalCatch(ErrText)
    IN IF o.kind = "exit"
       THEN IF code = 0
            THEN [next |-> "return", value |-> SuccessText(b), lastError |-> lastErr,
                  buffers |-> b]
            ELSE [next |-> AfterFailure(att),
                  value |-> <<>>, lastError |-> ExitError(code, b), buffers |-> b]
       ELSE IF c.caught
            THEN [next |-> AfterFailure(att),
                  value |-> <<>>, lastError |-> c.lastError, buffers |-> b]
            ELSE [next |-> "throw", value |-> ErrText, lastError |-> lastErr,
                  buffers |-> b]

\* the handler has returned or thrown: its locals are gone
HandlerLeft ==
    /\ attempt' = 0
    /\ lastError' = <<>>
    /\ buffers' = EmptyBuffers

\* the handler is entered: maxRetries, lastError and the loop variable are set
TerminalCall ==
    /\ pc = "agent"
    /\ MayCallTool
    /\ pc' = "terminal"
    /\ toolCalls' = toolCalls + 1
    /\ call' = [tool |-> "terminal", status |-> "running", path |-> <<>>,
                content |-> <<>>, outcome |-> "none", result |-> <<>>]
    /\ attempt' = 1
    /\ lastError' = <<>>
    /\ buffers' = EmptyBuffers
    /\ tries' = 0
    /\ runs' = 0
    /\ failures' = 0
    /\ resolveFails' = 0
    /\ lastOutcome' = NoOutcome
    /\ delays' = <<>>
    /\ earlierOutput' = FALSE
    /\ inspected' = NoText
    /\ readLog' = NoRead
    /\ UNCHANGED << hasData, data, agentRuns, responded, writeVars, markerSeen, firstMarker,
                    saved, returned,
                    handlers >>

\* one pass of the loop body, up to the delay, the return or the loop's end
TerminalAttempt ==
    /\ pc = "terminal"
    /\ attempt <= maxRetries
    /\ \E o \in AttemptOutcomes :
         LET r == AttemptBody(attempt, lastError, buffers, o)
         IN /\ tries' = tries + 1
            /\ runs' = IF o.kind = "resolveThrows" THEN runs ELSE runs + 1
            /\ failures' = IF r.next = "return" THEN failures ELSE failures + 1
            /\ resolveFails' = IF o.kind = "resolveThrows" THEN resolveFails + 1
                               ELSE resolveFails
            /\ lastOutcome' = o
            /\ earlierOutput' = (earlierOutput \/ lastOutcome.chunks # <<>>)
            /\ CASE r.next = "return" ->
                      /\ pc' = "agent"
                      /\ call' = [call EXCEPT !.status = "returned", !.result = r.value]
                      /\ HandlerLeft
                 [] r.next = "delay" ->
                      /\ pc' = "delay"
                      /\ call' = call
                      /\ attempt' = attempt
                      /\ lastError' = r.lastError
                      /\ buffers' = r.buffers
                 [] r.next = "next" ->
                      \* attempt++ ends the loop: all retries failed
                      /\ pc' = "agent"
                      /\ call' = [call EXCEPT !.status = "returned",
                                              !.result = FailedText(r.lastError)]
                      /\ HandlerLeft
                 [] OTHER ->
                      /\ pc' = "failed"
                      /\ call' = [call EXCEPT !.status = "thrown", !.result = r.value]
                      /\ HandlerLeft
    /\ UNCHANGED << hasData, data, agentRuns, responded, inspected, toolCalls, delays, writeVars,
                    markerSeen, firstMarker, saved, returned,
                    handlers, readLog >>

\* a retry that does not wait
TerminalDelayNoWait ==
    /\ pc = "delay"
    /\ delays' = delays
    /\ attempt' = attempt + 1
    /\ pc' = "terminal"
    /\ UNCHANGED << hasData, data, agentRuns, responded, inspected, toolCalls, call, lastError,
                    buffers, tries, runs, failures, resolveFails, lastOutcome, earlierOutput,
                    writeVars,
                    markerSeen, firstMarker, saved, returned,
                    handlers, readLog >>

\* await new Promise(resolve => setTimeout(resolve, 500)); continue
TerminalDelay ==
    /\ pc = "delay"
    /\ delays' = Append(delays, RetryDelay)
    /\ attempt' = attempt + 1
    /\ pc' = "terminal"
    /\ UNCHANGED << hasData, data, agentRuns, responded, inspected, toolCalls, call, lastError,
                    buffers, tries, runs, failures, resolveFails, lastOutcome, earlierOutput,
                    writeVars,
                    markerSeen, firstMarker, saved, returned,
                    handlers, readLog >>

---------------------------------------------------------------------------
(* The readFiles tool *)

\* "Error"
ErrorWord ==
    << "E", "r", "r", "o", "r" >>

\* '{"path":'
JsonPathKey ==
    << "{", "\"", "p", "a", "t", "h", "\"", ":" >>

\* ',"content":'
JsonContentKey ==
    << ",", "\"", "c", "o", "n", "t", "e", "n", "t", "\"", ":" >>

\* a content with a character JSON escapes
QuoteContent == << "\"" >>

\* what sandbox.files.read does for one path: it returns a content or throws
ReadOk(content) == [threw |-> FALSE, content |-> content]

ReadThrows == [threw |-> TRUE, content |-> <<>>]

\* one readFiles call: the paths asked for, whether getSandbox resolves, and
\* the sandbox's answers to the successive reads
ReadCall(files, resolves, answers) ==
    [files |-> files, resolves |-> resolves, answers |-> answers]

ReadCalls ==
    { ReadCall(<< PathA, PathB >>, FALSE, << ReadOk(<< "x" >>), ReadOk(<< "x" >>) >>),
      ReadCall(<<>>, TRUE, <<>>),
      ReadCall(<< PathA >>, TRUE, << ReadOk(<< "x" >>) >>),
      ReadCall(<< PathA >>, TRUE, << ReadOk(QuoteContent) >>),
      ReadCall(<< PathA >>, TRUE, << ReadThrows >>),
      ReadCall(<< PathA, PathB >>, TRUE, << ReadOk(<< "x" >>), ReadOk(QuoteContent) >>),
      ReadCall(<< PathA, PathB >>, TRUE, << ReadOk(<< "x" >>), ReadThrows >>),
      ReadCall(<< PathA, PathB >>, TRUE, << ReadThrows, ReadOk(<< "x" >>) >>),
      ReadCall(<< PathB, PathA >>, TRUE, << ReadOk(QuoteContent), ReadOk(<< "x" >>) >>) }

\* JSON.stringify of a string: quoted, with " and \ escaped
RECURSIVE JsonEscape(_)
JsonEscape(t) ==
    IF t = <<>> THEN <<>>
    ELSE (IF Head(t) \in {"\"", "\\"} THEN << "\\", Head(t) >> ELSE << Head(t) >>)
           \o JsonEscape(Tail(t))

JsonString(t) == << "\"" >> \o JsonEscape(t) \o << "\"" >>

\* JSON.stringify of { path, content }
JsonPair(p) ==
    JsonPathKey \o JsonString(p.path) \o JsonContentKey \o JsonString(p.content) \o << "}" >>

RECURSIVE JsonItems(_)
JsonItems(contents) ==
    IF contents = <<>> THEN <<>>
    ELSE IF Len(contents) = 1 THEN JsonPair(contents[1])
    ELSE JsonPair(Head(contents)) \o << "," >> \o JsonItems(Tail(contents))

\* JSON.stringify(contents)
JsonStringify(contents) == << "[" >> \o JsonItems(contents) \o << "]" >>

\* a loop that skips a path whose read throws and reads on
RECURSIVE ReadLoopSkipFailed(_, _)
ReadLoopSkipFailed(files, answers) ==
    IF files = <<>> THEN [threw |-> FALSE, contents |-> <<>>, reads |-> <<>>]
    ELSE LET rest == ReadLoopSkipFailed(Tail(files), Tail(answers))
         IN [threw |-> FALSE,
             contents |-> (IF Head(answers).threw THEN <<>>
                           ELSE << [path |-> Head(files),
                                    content |-> Head(answers).content] >>)
                          \o rest.contents,
             reads |-> << Head(files) >> \o rest.reads]

\* for (const file of files) { content = await sandbox.files.read(file);
\* contents.push({ path: file, content }) }: the pairs pushed, the paths the
\* sandbox was asked for, and whether a read threw and ended the loop
RECURSIVE ReadLoop(_, _)
ReadLoop(files, answers) ==
    IF files = <<>> THEN [threw |-> FALSE, contents |-> <<>>, reads |-> <<>>]
    ELSE IF Head(answers).threw
    THEN [threw |-> TRUE, contents |-> <<>>, reads |-> << Head(files) >>]
    ELSE LET rest == ReadLoop(Tail(files), Tail(answers))
         IN [threw |-> rest.threw,
             contents |-> << [path |-> Head(files), content |-> Head(answers).content] >>
                          \o rest.contents,
             reads |-> << Head(files) >> \o rest.reads]

\* the try block: getSandbox, the loop, JSON.stringify
ReadFilesTry(files, resolves, answers) ==
    IF ~resolves
    THEN [thrown |-> TRUE, error |-> ErrText, value |-> <<>>, reads |-> <<>>,
          contents |-> <<>>]
    ELSE LET l == ReadLoop(files, answers)
         IN IF l.threw
            THEN [thrown |-> TRUE, error |-> ErrText, value |-> <<>>, reads |-> l.reads,
                  contents |-> l.contents]
            ELSE [thrown |-> FALSE, error |-> <<>>, value |-> JsonStringify(l.contents),
                  reads |-> l.reads, contents |-> l.contents]

\* the catch block: return "Error" + error
ReadFilesCatch(error) == [status |-> "returned", result |-> ErrorWord \o error]

ReadFiles ==
    /\ pc = "agent"
    /\ MayCallTool
    /\ \E c \in ReadCalls :
         LET t == ReadFilesTry(c.files, c.resolves, c.answers)
             r == IF t.thrown THEN ReadFilesCatch(t.error)
                  ELSE [status |-> "returned", result |-> t.value]
         IN /\ call' = [tool |-> "readFiles", status |-> r.status, path |-> <<>>,
                        content |-> <<>>,
                        outcome |-> IF t.thrown THEN "readThrows" ELSE "read",
                        result |-> r.result]
            /\ readLog' = [files |-> c.files, resolved |-> c.resolves, reads |-> t.reads,
                           got |-> [i \in 1..Len(t.contents) |-> t.contents[i].content]]
            /\ pc' = IF r.status = "thrown" THEN "failed" ELSE "agent"
    /\ toolCalls' = toolCalls + 1
    /\ inspected' = NoText
    /\ TermIdle
    /\ UNCHANGED << hasData, data, agentRuns, responded, writeVars, markerSeen, firstMarker,
                    saved, returned, handlers >>

---------------------------------------------------------------------------
(* The turn ends: agent.run returns to the network, which asks the router *)

EndTurn ==
    /\ pc = "agent"
    /\ responded
    /\ pc' = "router"
    /\ responded' = FALSE
    /\ inspected' = NoText
    /\ call' = NoCall
    /\ TermIdle
    /\ readLog' = NoRead
    /\ UNCHANGED << hasData, data, agentRuns, toolCalls, writeVars, markerSeen, firstMarker,
                    saved, returned,
                    handlers >>

---------------------------------------------------------------------------
(* After network.run: get-sandbox-url, save-result, return *)

\* a result that carries the summary as it is, with no default
SummaryNoDefault(h, d) == IF SummarySet(h, d) THEN d["summary"] ELSE <<>>

\* data?.summary || "Task completed"
SummaryOrDefault(h, d) == IF SummarySet(h, d) THEN d["summary"] ELSE TaskCompletedText

ResultRecord(h, d) == [files |-> FilesOf(h, d), summary |-> SummaryOrDefault(h, d)]

\* step.run("get-sandbox-url"): getSandbox may throw, which fails the job
GetSandboxUrl ==
    /\ pc = "stopped"
    /\ \E ok \in BOOLEAN : pc' = IF ok THEN "url" ELSE "failed"
    /\ UNCHANGED << hasData, data, agentRuns, responded, inspected, toolCalls, call, termVars,
                    writeVars, markerSeen, firstMarker, saved, returned,
                    handlers, readLog >>

\* step.run("save-result"): prisma.message.create may throw, which fails the job
SaveResult ==
    /\ pc = "url"
    /\ \E ok \in BOOLEAN :
         IF ok
         THEN /\ pc' = "saved"
              /\ saved' = << [content |-> ResultRecord(hasData, data).summary,
                              files |-> ResultRecord(hasData, data).files] >>
         ELSE /\ pc' = "failed"
              /\ saved' = saved
    /\ UNCHANGED << hasData, data, agentRuns, responded, inspected, toolCalls, call, termVars,
                    writeVars, markerSeen, firstMarker, returned,
                    handlers, readLog >>

Return ==
    /\ pc = "saved"
    /\ pc' = "done"
    /\ returned' = << ResultRecord(hasData, data) >>
    /\ UNCHANGED << hasData, data, agentRuns, responded, inspected, toolCalls, call, termVars,
                    writeVars, markerSeen, firstMarker, saved,
                    handlers, readLog >>

---------------------------------------------------------------------------
Next ==
    \/ Router
    \/ OnResponse
    \/ WriteFile
    \/ ReadFiles
    \/ TerminalCall
    \/ TerminalAttempt
    \/ TerminalDelay
    \/ EndTurn
    \/ GetSandboxUrl
    \/ SaveResult
    \/ Return

Spec == Init /\ [][Next]_vars

\* a run in which every agent turn and every tool call returns: the hook is
\* called, a started terminal attempt and a started delay finish, the turn
\* ends and the network asks the router again
LiveSpec ==
    /\ Init
    /\ [][Next]_vars
    /\ WF_vars(Router)
    /\ WF_vars(OnResponse)
    /\ WF_vars(TerminalAttempt)
    /\ WF_vars(TerminalDelay)
    /\ WF_vars(EndTurn)

---------------------------------------------------------------------------
(* Two writeFile handlers of one turn that overlap.  Each handler is       *)
(* suspended at its two awaits, getSandbox and sandbox.files.write; what   *)
(* follows the second await runs to the return without suspension.  The    *)
(* handlers are started inside the first agent turn.                       *)

Handlers == {1, 2}

IdleHandler ==
    [pc |-> "idle", path |-> <<>>, content |-> <<>>, seen |-> <<>>, order |-> 0,
     status |-> "none", result |-> <<>>]

\* the run state before the handlers start: as the router left it in the
\* first pass, or with one file recorded by an earlier writeFile call of
\* the turn, made before the detector ran
OverlapStates ==
    { [data |-> RouterCount(RouterInit(h, <<>>)), written |-> <<>>] : h \in BOOLEAN }
      \cup { [data |-> Put(RouterCount(RouterInit(FALSE, <<>>)), "files",
                           PutFile(<<>>, PathA, <<"y">>)),
              written |-> PutFile(<<>>, PathA, <<"y">>)] }

OverlapInit ==
    /\ \E s \in OverlapStates :
         /\ data = s.data
         /\ lastWrite = s.written
         /\ toolCalls = Cardinality(DOMAIN s.written)
    /\ pc = "agent"
    /\ hasData = TRUE
    /\ agentRuns = 1
    /\ responded = (lastWrite # <<>>)
    /\ inspected = NoText
    /\ call = NoCall
    /\ attempt = 0
    /\ lastError = <<>>
    /\ buffers = EmptyBuffers
    /\ tries = 0
    /\ runs = 0
    /\ failures = 0
    /\ resolveFails = 0
    /\ lastOutcome = NoOutcome
    /\ delays = <<>>
    /\ earlierOutput = FALSE
    /\ overwrote = FALSE
    /\ markerSeen = FALSE
    /\ firstMarker = NoMarker
    /\ readLog = NoRead
    /\ handlers = [h \in Handlers |-> IdleHandler]
    /\ saved = <<>>
    /\ returned = <<>>

\* everything but the run state and the handlers
overlapFixed ==
    << pc, hasData, agentRuns, responded, inspected, toolCalls, call, termVars, writeVars,
       markerSeen, firstMarker, readLog, saved, returned >>

\* a handler that updates the run state as it was when the handler started
StateAtStart(atStart, atResume) == atStart

\* network.state.data is read after the awaits: the handler sees the run
\* state as it is when it resumes
StateAtResume(atStart, atResume) == atResume

\* handlers that have resumed from sandbox.files.write
Resumed == { h \in Handlers : handlers[h].order > 0 }

\* the handler is called and suspends at await getSandbox(sandboxId)
OverlapCall ==
    \E h \in Handlers, path \in Paths, content \in Contents :
        /\ handlers[h].pc = "idle"
        /\ handlers' = [handlers EXCEPT ![h] =
                           [IdleHandler EXCEPT !.pc = "resolving", !.path = path,
                                               !.content = content, !.seen = data]]
        /\ UNCHANGED << data, overlapFixed >>

\* getSandbox returns and the handler suspends at await sandbox.files.write,
\* or getSandbox throws and the catch block returns
OverlapResolve ==
    \E h \in Handlers, ok \in BOOLEAN :
        /\ handlers[h].pc = "resolving"
        /\ LET t == WriteFileTry(hasData, data, handlers[h].path, handlers[h].content,
                                 "resolveThrows")
               r == WriteFileCatch(handlers[h].path, t.error)
           IN handlers' = [handlers EXCEPT ![h] =
                              IF ok THEN [@ EXCEPT !.pc = "writing"]
                              ELSE [@ EXCEPT !.pc = "done", !.status = r.status,
                                             !.result = r.result]]
        /\ UNCHANGED << data, overlapFixed >>

\* sandbox.files.write returns or throws, and the handler runs to its return
OverlapResume ==
    \E h \in Handlers, outcome \in {"written", "writeThrows"} :
        /\ handlers[h].pc = "writing"
        /\ LET seen == StateAtResume(handlers[h].seen, data)
               t == WriteFileTry(hasData, seen, handlers[h].path, handlers[h].content,
                                 outcome)
               r == IF t.thrown THEN WriteFileCatch(handlers[h].path, t.error)
                    ELSE [status |-> "returned", result |-> t.value]
           IN /\ data' = IF t.thrown THEN data ELSE t.data
              /\ handlers' = [handlers EXCEPT ![h] =
                                 [@ EXCEPT !.pc = "done", !.status = r.status,
                                           !.result = r.result,
                                           !.order = IF t.thrown THEN 0
                                                     ELSE Cardinality(Resumed) + 1]]
        /\ UNCHANGED overlapFixed

OverlapNext ==
    \/ OverlapCall
    \/ OverlapResolve
    \/ OverlapResume

OverlapSpec == OverlapInit /\ [][OverlapNext]_vars

TypeOK ==
    /\ pc \in {"router", "agent", "terminal", "delay", "stopped", "url", "saved",
               "done", "failed"}
    /\ agentRuns \in 0..IterationCap
    /\ toolCalls \in 0..MaxToolCalls

---------------------------------------------------------------------------
(* Properties *)

Completed == CompletedOf(hasData, data)

Iterations == IterationsOf(hasData, data)

Files == FilesOf(hasData, data)

\* the recorded summary, "" when none is set
Summary == IF SummarySet(hasData, data) THEN data["summary"] ELSE <<>>

\* C1: in every run, whatever the agent says and whatever its tools return,
\* the network runs the agent at most 15 times.
C1_AgentRunsAtMost15 == agentRuns <= 15

\* C1 witness: a run in which no marker ever appeared has been stopped by the
\* iteration test, after the most agent runs a run can have.
C1_Witness == pc = "stopped" /\ ~markerSeen /\ ~Completed /\ agentRuns = 14

C3_Original ==
    (pc = "done" /\ ~markerSeen) =>
        /\ ~Completed
        /\ saved[1].content = TaskCompletedText
        /\ returned[1].summary = TaskCompletedText
        /\ agentRuns = 15

\* C3 amended: such a run ends not completed, with the default summary saved
\* and returned, after exactly 14 agent runs: the 15th router pass stops the
\* loop without running the agent.
C3_NoMarkerRun ==
    (pc = "done" /\ ~markerSeen) =>
        /\ ~Completed
        /\ ~SummarySet(hasData, data)
        /\ saved[1].content = TaskCompletedText
        /\ returned[1].summary = TaskCompletedText
        /\ agentRuns = 14
        /\ Iterations = 15

\* C3 witness: a run without any marker has returned.
C3_Witness == pc = "done" /\ ~markerSeen /\ returned # <<>> /\ Files # <<>>

\* what a command streamed to one of its two streams, in order
RECURSIVE StreamText(_, _)
StreamText(chunks, stream) ==
    IF Len(chunks) = 0 THEN <<>>
    ELSE StreamText(SubSeq(chunks, 1, Len(chunks) - 1), stream)
           \o (IF chunks[Len(chunks)].stream = stream THEN chunks[Len(chunks)].data ELSE <<>>)

LastStdout == StreamText(lastOutcome.chunks, "stdout")

LastStderr == StreamText(lastOutcome.chunks, "stderr")

LastExitCode == IF lastOutcome.exitCode.defined THEN lastOutcome.exitCode.code ELSE 0

\* the error of the latest attempt, as the handler is to record it
LastAttemptError ==
    IF lastOutcome.kind = "exit"
    THEN ExitCodePrefix \o NumToStr(LastExitCode) \o ColonSpace
           \o (IF LastStderr # <<>> THEN LastStderr ELSE LastStdout)
    ELSE ErrText

FailedAfter3 == FailedAfter \o <<"3">> \o AttemptsColon

TerminalReturned == call.tool = "terminal" /\ call.status = "returned"

\* C4 as stated: when the handler has returned and every attempt failed, the
\* sandbox command was invoked exactly 3 times, exactly two delays of 500
\* were waited, and the result is "FAILED after 3 attempts: " followed by
\* the error of the last attempt.
C4_Original ==
    (TerminalReturned /\ failures = tries) =>
        /\ runs = 3
        /\ delays = <<500, 500>>
        /\ call.result = FailedAfter3 \o LastAttemptError

\* C4 amended: when every attempt failed the handler made exactly 3
\* attempts, each of which invoked the sandbox command unless getSandbox
\* threw first (so exactly 3 invocations when no getSandbox threw), exactly
\* two delays of 500 were waited, none after the third attempt, and the
\* result is "FAILED after 3 attempts: " followed by the last attempt's error.
C4_AllAttemptsFail ==
    (TerminalReturned /\ failures = tries) =>
        /\ tries = 3
        /\ runs = 3 - resolveFails
        /\ delays = <<500, 500>>
        /\ call.result = FailedAfter3 \o LastAttemptError

\* C4 witness: a call has returned after three failed attempts, the last
\* one a non-zero exit, with the command run three times.
C4_Witness ==
    /\ TerminalReturned
    /\ failures = 3
    /\ runs = 3
    /\ lastOutcome.kind = "exit"
    /\ LastStderr # <<>>

\* C5: when the first attempt of a call exits with code 0, the handler has
\* returned after one invocation of the sandbox command and no delay, and
\* its result is stdout if non-empty, else stderr if non-empty, else
\* "Command executed successfully".
C5_FirstAttemptSucceeds ==
    (call.tool = "terminal" /\ tries = 1 /\ lastOutcome.kind = "exit" /\ LastExitCode = 0) =>
        /\ call.status = "returned"
        /\ pc = "agent"
        /\ runs = 1
        /\ delays = <<>>
        /\ call.result = IF LastStdout # <<>> THEN LastStdout
                         ELSE IF LastStderr # <<>> THEN LastStderr
                         ELSE CommandOk

\* C5 witness: a first attempt exited 0 having written to both streams.
C5_Witness ==
    /\ TerminalReturned
    /\ tries = 1
    /\ LastStdout # <<>>
    /\ LastStderr # <<>>

\* C6: a terminal call never ends by throwing and never fails the job: an
\* attempt that threw is a failed attempt, followed by the delay and a retry
\* if fewer than 3 attempts were made and by the returned "FAILED after 3
\* attempts: ..." string otherwise; a call that is over has returned a
\* non-empty string and the turn goes on.
C6_TerminalNeverThrows ==
    call.tool = "terminal" =>
        /\ call.status \in {"running", "returned"}
        /\ pc \in {"terminal", "delay", "agent"}
        /\ (call.status = "returned" <=> pc = "agent")
        /\ (call.status = "returned" => call.result # <<>>)
        /\ (lastOutcome.kind \in {"resolveThrows", "runThrows"} =>
               /\ failures = tries
               /\ IF tries < 3
                  THEN pc \in {"delay", "terminal"} /\ Len(delays) \in {tries - 1, tries}
                  ELSE /\ call.status = "returned"
                       /\ call.result = FailedAfter3 \o ErrText)

\* C6 witness: a call has returned after its third attempt threw while the
\* command ran, an earlier attempt having thrown in getSandbox.
C6_Witness ==
    /\ TerminalReturned
    /\ pc = "agent"
    /\ tries = 3
    /\ resolveFails >= 1
    /\ lastOutcome.kind = "runThrows"

\* the latest step was a writeFile call (primed: the step just taken)
WriteFileStep == toolCalls' # toolCalls /\ call'.tool = "writeFile"

\* C7: the recorded files are always the contents of the last successful
\* write to each written path; a successful write to a path records exactly
\* its content for that path, replacing what was there, and leaves the
\* recorded content of every other path as it was.
C7_LastWriteWins ==
    /\ [](Files = lastWrite)
    /\ [][(WriteFileStep /\ call'.outcome = "written") =>
             /\ call'.result = FilePrefix \o call'.path \o WrittenSuffix
             /\ DOMAIN Files' = (DOMAIN Files) \cup {call'.path}
             /\ Files'[call'.path] = call'.content
             /\ \A q \in (DOMAIN Files) \ {call'.path} : Files'[q] = Files[q]]_vars

\* C7 witness: a write has just replaced a different content of its path.
C7_Witness ==
    /\ overwrote
    /\ call.tool = "writeFile"
    /\ call.outcome = "written"
    /\ Files[call.path] = call.content

\* C8: a writeFile call in which getSandbox or the sandbox write threw
\* returns "Error writing file {path}: {error}", leaves the run state
\* (files, summary, completed, iterations) exactly as it was, and the turn
\* goes on: the job does not fail.
C8_WriteFailureIsReturned ==
    [][(WriteFileStep /\ call'.outcome # "written") =>
         /\ call'.status = "returned"
         /\ call'.result = ErrorWritingFile \o call'.path \o ColonSpace \o ErrText
         /\ hasData' = hasData
         /\ data' = data
         /\ agentRuns' = agentRuns
         /\ pc' = "agent"]_vars

\* C8 witness: a write threw, after an earlier write had been recorded.
C8_Witness ==
    /\ call.tool = "writeFile"
    /\ call.outcome = "writeThrows"
    /\ call.status = "returned"
    /\ Files # <<>>
    /\ pc = "agent"

\* C9: no turn ends before the detector has run; when the text it is handed
\* contains one of the three markers, completed is true and the summary is
\* that whole text afterwards; and no step makes completed false again or
\* clears a summary that was set.
C9_DetectorSetsAndKeeps ==
    [][/\ (pc = "agent" /\ pc' = "router") => responded
       /\ (responded' /\ ~responded /\ ContainsMarker(inspected'.text)) =>
             (Completed' /\ Summary' = inspected'.text)
       /\ Completed => Completed'
       /\ SummarySet(hasData, data) => SummarySet(hasData', data')]_vars

\* C9 witness: the detector has just recorded a text holding the phrase
\* "Done with the task" inside a longer message.
C9_Witness ==
    /\ responded
    /\ inspected.text = MsgDone
    /\ Completed
    /\ Summary = MsgDone

\* C10: the iteration counter reads 0 at the start, every router pass
\* raises it by exactly 1, and no other step changes it.
C10_IterationsCountRouterPasses ==
    /\ Iterations = 0
    /\ [][IF pc = "router" THEN Iterations' = Iterations + 1
                            ELSE Iterations' = Iterations]_vars

\* C10 witness: the counter has reached 15 in a run with tool calls and
\* detector runs in between.
C10_Witness == Iterations = 15 /\ pc = "stopped" /\ toolCalls > 0

---------------------------------------------------------------------------
\* the run has left the loop: the router returned undefined
LoopEnded == pc \in {"stopped", "url", "saved", "done"}

\* the ghost record of the one file the agent wrote, and of its first tagged message
OneFileThenTagOnTurn2 ==
    /\ Cardinality(DOMAIN lastWrite) = 1
    /\ ~overwrote
    /\ firstMarker.turn = 2
    /\ Includes(firstMarker.text, TagMarker)

\* C11: a run in which the agent wrote one file successfully and whose first
\* message with the completion tag came on turn 2 ends with completed = true,
\* files holding exactly that one path, summary equal to the whole turn-2
\* message, two agent invocations and three router passes; the returned record
\* carries the same files and summary.
C11_OneFileTagOnTurn2 ==
    (LoopEnded /\ OneFileThenTagOnTurn2) =>
        /\ Completed
        /\ Files = lastWrite
        /\ Summary = firstMarker.text
        /\ agentRuns = 2
        /\ Iterations = 3
        /\ (pc = "done" => /\ returned[1].files = lastWrite
                           /\ returned[1].summary = firstMarker.text)

C11_Witness ==
    /\ pc = "done"
    /\ OneFileThenTagOnTurn2
    /\ DOMAIN Files = {PathA}
    /\ Summary = MsgTag

---------------------------------------------------------------------------
\* the record a finished run produced, and the row it saved
ResultIsFinalState ==
    /\ returned[1].files = (IF hasData /\ Has(data, "files") THEN data["files"] ELSE <<>>)
    /\ returned[1].summary = (IF SummarySet(hasData, data) THEN data["summary"]
                              ELSE TaskCompletedText)
    /\ saved[1].files = returned[1].files
    /\ saved[1].content = returned[1].summary

\* C12: the result record of a finished run carries the final files of the
\* run state (the empty mapping when none was recorded) and the final summary
\* ("Task completed" when none was recorded); the router pass that reaches the
\* iteration cap without a marker ends the loop and does not fail the run.
C12_ResultCarriesFinalState ==
    /\ [](pc = "done" => ResultIsFinalState)
    /\ [][(pc = "router" /\ ~Completed /\ Iterations' = 15) => pc' = "stopped"]_vars

C12_Witness ==
    /\ pc = "done"
    /\ Iterations = 15
    /\ ~markerSeen
    /\ ~Has(data, "files")
    /\ returned = << [files |-> <<>>, summary |-> TaskCompletedText] >>

---------------------------------------------------------------------------
\* "FAILED after 3 attempts: Exit code 1: "
FailedExit1NoOutput ==
    << "F", "A", "I", "L", "E", "D", " ", "a", "f", "t", "e", "r", " ", "3",
       " ", "a", "t", "t", "e", "m", "p", "t", "s", ":", " ", "E", "x", "i",
       "t", " ", "c", "o", "d", "e", " ", "1", ":", " " >>

\* the error a failed attempt is to record, from what the sandbox did in it
RecordedError ==
    IF lastOutcome.kind = "exit"
    THEN ExitCodePrefix \o NumToStr(lastOutcome.exitCode.code) \o ColonSpace
           \o (IF LastStderr # <<>> THEN LastStderr ELSE LastStdout)
    ELSE ErrText

\* C13: after a failed attempt the recorded error is "Exit code {code}: "
\* followed by that attempt's stderr, or its stdout when stderr is empty, when
\* the command returned a non-zero exit code, and the string form of the
\* exception when the attempt threw; a call whose attempts all failed returns
\* "FAILED after 3 attempts: " followed by that error, which for a last
\* attempt that exited 1 with no output is exactly
\* "FAILED after 3 attempts: Exit code 1: ".
C13_RecordedError ==
    /\ (pc = "delay" => lastError = RecordedError)
    /\ (TerminalReturned /\ failures = tries) =>
          /\ call.result = FailedAfter3 \o RecordedError
          /\ (lastOutcome.kind = "exit" /\ lastOutcome.exitCode.code = 1
                /\ lastOutcome.chunks = <<>>) => call.result = FailedExit1NoOutput

C13_Witness ==
    /\ TerminalReturned
    /\ failures = 3
    /\ lastOutcome.kind = "exit"
    /\ lastOutcome.exitCode.code = 1
    /\ lastOutcome.chunks = <<>>
    /\ call.result = FailedExit1NoOutput

---------------------------------------------------------------------------
\* C14: every router pass first adds one to iterations; it then ends the loop
\* without running the agent when completed is true, else ends the loop
\* without running the agent when the counter has reached 15, else runs the
\* agent for one turn; so the pass that makes the counter 15 runs no agent.
C14_RouterPass ==
    [][pc = "router" =>
         /\ Iterations' = Iterations + 1
         /\ Completed' = Completed
         /\ IF Completed
            THEN pc' = "stopped" /\ agentRuns' = agentRuns
            ELSE IF Iterations' >= 15
            THEN pc' = "stopped" /\ agentRuns' = agentRuns
            ELSE pc' = "agent" /\ agentRuns' = agentRuns + 1]_vars

C14_Witness ==
    /\ pc = "stopped"
    /\ Iterations = 15
    /\ agentRuns = 14
    /\ ~Completed
    /\ Files # <<>>

---------------------------------------------------------------------------
\* the handler returned from inside the loop: its latest attempt succeeded
ReturnedOnSuccess == TerminalReturned /\ failures < tries

\* the success output of the latest attempt
LastSuccessOutput ==
    IF LastStdout # <<>> THEN LastStdout
    ELSE IF LastStderr # <<>> THEN LastStderr
    ELSE CommandOk

IsFailedString(text) ==
    Len(text) >= Len(FailedAfter) /\ SubSeq(text, 1, Len(FailedAfter)) = FailedAfter

\* C15 as stated: when attempt k is the first successful one, the sandbox
\* command was invoked exactly k times, exactly k-1 delays were waited, and
\* the result is the success output of attempt k and not a "FAILED after"
\* string.
C15_Original ==
    ReturnedOnSuccess =>
        /\ tries \in 1..3
        /\ failures = tries - 1
        /\ runs = tries
        /\ Len(delays) = tries - 1
        /\ call.result = LastSuccessOutput
        /\ ~IsFailedString(call.result)

\* C15 amended: when attempt k is the first successful one, no attempt
\* follows it; each of the k attempts invoked the sandbox command unless
\* getSandbox threw first (so exactly k invocations when no getSandbox
\* threw, and attempt k itself always invoked it), exactly k-1 delays of 500
\* were waited, and the result is the success output of attempt k and not a
\* "FAILED after" string.
C15_StopsAtFirstSuccess ==
    ReturnedOnSuccess =>
        /\ tries \in 1..3
        /\ failures = tries - 1
        /\ runs = tries - resolveFails
        /\ runs >= 1
        /\ lastOutcome.kind = "exit"
        /\ ExitCodeOf(lastOutcome.exitCode) = 0
        /\ delays = [i \in 1..(tries - 1) |-> 500]
        /\ call.result = LastSuccessOutput
        /\ ~IsFailedString(call.result)

C15_Witness ==
    /\ ReturnedOnSuccess
    /\ tries = 3
    /\ resolveFails = 1
    /\ runs = 2
    /\ delays = <<500, 500>>
    /\ call.result = <<"o", "k">>

---------------------------------------------------------------------------
\* RUNNING: network.run has not returned; DONE: the router returned undefined
Running == pc \in {"router", "agent", "terminal", "delay"}

LoopDone == ~Running /\ call.status # "thrown"

\* C16: a run in which every agent turn and every tool call returns leaves
\* the loop: the router eventually returns undefined, after at most 15
\* passes; once it has, no router pass and no agent run follows.
C16_LoopTerminates ==
    /\ <>LoopDone
    /\ [](Iterations <= 15)
    /\ [][LoopDone => /\ LoopDone'
                      /\ Iterations' = Iterations
                      /\ agentRuns' = agentRuns
                      /\ responded' = responded
                      /\ data' = data]_vars

C16_Witness ==
    /\ LoopDone
    /\ pc = "done"
    /\ Iterations = 15
    /\ markerSeen = FALSE
    /\ toolCalls = MaxToolCalls

---------------------------------------------------------------------------
\* the property summary of the run state holds a value
HasSummary == hasData /\ Has(data, "summary")

\* the detector runs in this step
DetectorStep == ~responded /\ responded'

\* the text the detector was handed is absent, empty or without a marker
NoMarkerInspected(last) ==
    \/ ~last.defined
    \/ last.text = <<>>
    \/ ~ContainsMarker(last.text)

\* C17: in every state completed is true exactly when summary is set, and a
\* set summary is a non-empty message of the agent that contains a completion
\* marker; a detector run whose text is absent, empty or without a marker
\* leaves summary and completed as they were.
C17_CompletedIffSummary ==
    /\ [](Completed <=> HasSummary)
    /\ [](HasSummary => /\ data["summary"] # <<>>
                        /\ data["summary"] \in Messages
                        /\ ContainsMarker(data["summary"]))
    /\ [][(DetectorStep /\ NoMarkerInspected(inspected')) =>
             /\ Completed' = Completed
             /\ HasSummary' = HasSummary
             /\ Summary' = Summary]_vars

C17_Witness ==
    /\ responded
    /\ inspected.defined
    /\ inspected.text = MsgLower
    /\ agentRuns = 2
    /\ ~Completed
    /\ ~HasSummary

---------------------------------------------------------------------------
\* the string the handler is to return, from the latest attempt alone
ResultOfLastAttempt ==
    IF lastOutcome.kind = "exit" /\ LastExitCode = 0
    THEN LastSuccessOutput
    ELSE FailedAfter3 \o RecordedError

\* C18: every attempt starts with empty buffers: the buffers after an
\* attempt hold what that attempt streamed and nothing else, and the string
\* a terminal call returns is built from the output, the exit code or the
\* exception of its latest attempt only, whatever earlier attempts captured.
C18_BuffersPerAttempt ==
    /\ (pc = "delay" =>
          buffers = [stdout |-> LastStdout, stderr |-> LastStderr])
    /\ (TerminalReturned => call.result = ResultOfLastAttempt)

C18_Witness ==
    /\ TerminalReturned
    /\ earlierOutput
    /\ tries = 2
    /\ lastOutcome.chunks = <<>>
    /\ call.result = CommandOk

---------------------------------------------------------------------------
\* '[{"path":"a","content":"x"},{"path":"b","content":"\""}]'
TwoFilesJson ==
    << "[", "{", "\"", "p", "a", "t", "h", "\"", ":", "\"", "a", "\"", ",",
       "\"", "c", "o", "n", "t", "e", "n", "t", "\"", ":", "\"", "x", "\"",
       "}", ",", "{", "\"", "p", "a", "t", "h", "\"", ":", "\"", "b", "\"",
       ",", "\"", "c", "o", "n", "t", "e", "n", "t", "\"", ":", "\"", "\\",
       "\"", "\"", "}", "]" >>

\* "ErrorError: x"
ReadErrorText ==
    << "E", "r", "r", "o", "r", "E", "r", "r", "o", "r", ":", " ", "x" >>

\* the latest step was a readFiles call (primed: the step just taken)
ReadFilesStep == toolCalls' # toolCalls /\ call'.tool = "readFiles"

\* getSandbox or a read of the latest readFiles call threw
ReadThrew == ~readLog.resolved \/ Len(readLog.got) < Len(readLog.reads)

\* the requested paths paired with the contents the sandbox returned
PairsRead ==
    [i \in 1..Len(readLog.got) |-> [path |-> readLog.files[i], content |-> readLog.got[i]]]

\* C19: readFiles asks the sandbox for the requested paths one at a time in
\* the given order; when every read succeeds it returns the serialized list
\* of {path, content} pairs in request order; when a read throws it asks for
\* no further path and returns only the error string, with none of the
\* contents read; it never throws and never changes the run state.
C19_ReadFilesAllOrNothing ==
    /\ [](call.tool = "readFiles" =>
            /\ call.status = "returned"
            /\ pc = "agent"
            /\ readLog.reads = SubSeq(readLog.files, 1, Len(readLog.reads))
            /\ IF ReadThrew
               THEN /\ call.result = ReadErrorText
                    /\ readLog.resolved => Len(readLog.reads) = Len(readLog.got) + 1
               ELSE /\ readLog.reads = readLog.files
                    /\ Len(readLog.got) = Len(readLog.files)
                    /\ call.result = JsonStringify(PairsRead)
                    /\ (readLog.files = << PathA, PathB >>
                          /\ readLog.got = << << "x" >>, QuoteContent >>)
                         => call.result = TwoFilesJson)
    /\ [][ReadFilesStep => /\ data' = data
                           /\ hasData' = hasData
                           /\ pc' = "agent"]_vars

C19_Witness ==
    /\ call.tool = "readFiles"
    /\ call.status = "returned"
    /\ readLog.files = << PathA, PathB >>
    /\ readLog.reads = << PathA, PathB >>
    /\ readLog.got = << << "x" >> >>
    /\ call.result = ReadErrorText
    /\ Files # <<>>

---------------------------------------------------------------------------
\* both handlers have returned after their sandbox writes returned
BothWritten == \A h \in Handlers : handlers[h].pc = "done" /\ handlers[h].order > 0

\* the handler that resumed last
LastResumed == CHOOSE h \in Handlers : handlers[h].order = Cardinality(Handlers)

\* C20: when two writeFile handlers overlap, both suspended at the sandbox
\* write and resumed in either order, no recorded write is lost: once both
\* have returned, files holds both paths with their contents when the paths
\* differ, and for one common path the content of the handler that resumed
\* last; a path recorded before keeps its content unless a handler wrote it.
C20_OverlappingWritesKept ==
    BothWritten =>
        /\ \A h \in Handlers :
             /\ handlers[h].path \in DOMAIN Files
             /\ handlers[h].status = "returned"
             /\ (handlers[h].path # handlers[LastResumed].path =>
                    Files[handlers[h].path] = handlers[h].content)
        /\ Files[handlers[LastResumed].path] = handlers[LastResumed].content
        /\ \A p \in DOMAIN lastWrite :
             /\ p \in DOMAIN Files
             /\ (\A h \in Handlers : handlers[h].path # p) => Files[p] = lastWrite[p]
        /\ DOMAIN Files = DOMAIN lastWrite \cup { handlers[h].path : h \in Handlers }

C20_Witness ==
    /\ BothWritten
    /\ handlers[1].path = PathA
    /\ handlers[2].path = PathB
    /\ handlers[1].seen = handlers[2].seen
    /\ ~Has(handlers[1].seen, "files")
    /\ handlers[1].order = 2
    /\ DOMAIN Files = {PathA, PathB}

====
